---------------------------- MODULE Spec2Model ----------------------------
(***************************************************************************)
(* Entry-segmentation engine of extract_symbols.py: the block classifier,  *)
(* the heading detector, the term validator, the entry accumulator         *)
(* (extract_entries) and the post-processor (post_process_entries).        *)
(*                                                                         *)
(* Text is a sequence of one-character strings, so that Python's string    *)
(* methods and regular expressions are computed character by character.    *)
(***************************************************************************)
EXTENDS Integers, Sequences, FiniteSets, TLC

(***************************************************************************)
(* The program's state.                                                    *)
(***************************************************************************)

VARIABLES
    pc,                         \* "extract", "post", "done"; "call", "return"
    doc_len,                    \* len(doc): the number of pages
    page_num,                   \* extract_entries: the page being read
    doc,                        \* the blocks read so far: [page, block]
    entries,                    \* the raw entries, the records themselves
    current_term,
    current_definition_lines,
    current_page,
    first_line,                 \* the first line given to detect_entry_heading
    detected_term,              \* what it returned
    raw,                        \* the list given to post_process_entries
    entry_idx,                  \* post_process_entries: the entry being read
    cleaned,                    \* indices into entries: cleaned shares its
                                \* records with the list it was given
    seen_terms,
    input,                      \* the argument of a function called alone
    output                      \* what it returned

vars == <<pc, doc_len, page_num, doc, entries, current_term,
          current_definition_lines, current_page, first_line, detected_term,
          raw, entry_idx, cleaned, seen_terms, input, output>>

extractVars == <<doc_len, page_num, doc, current_term,
                 current_definition_lines, current_page>>
postVars == <<raw, entry_idx, cleaned, seen_terms>>
callVars == <<input, output>>

(***************************************************************************)
(* Characters and Python's str methods.                                    *)
(***************************************************************************)

\* a function on 1..n as the tuple of its values
AsSeq(f) == SubSeq(f, 1, Len(f))

\* "abc" as the character sequence <<"a", "b", "c">>
Chars(str) == AsSeq([i \in 1..Len(str) |-> SubSeq(str, i, i)])

LowerSeq == Chars("abcdefghijklmnopqrstuvwxyz")
UpperSeq == Chars("ABCDEFGHIJKLMNOPQRSTUVWXYZ")
LowerSet == {LowerSeq[i] : i \in 1..Len(LowerSeq)}
UpperSet == {UpperSeq[i] : i \in 1..Len(UpperSeq)}
DigitSet == {"0", "1", "2", "3", "4", "5", "6", "7", "8", "9"}

\* U+00AD, the soft hyphen, written as one character of the model's alphabet
SOFT_HYPHEN == "~"

\* Python's None; no text is equal to it (a text holds one-character strings)
None == <<"None">>

\* regex \s and the characters str.strip() removes
IsSpace(c) == c \in {" ", "\n", "\t"}
\* str.isalpha() / str.isupper() of one character
IsAlpha(c) == c \in LowerSet \/ c \in UpperSet
IsUpper(c) == c \in UpperSet
IsDigit(c) == c \in DigitSet

\* the lowercase letter of each uppercase letter
LowerOf == [c \in UpperSet |->
               LowerSeq[CHOOSE i \in 1..Len(UpperSeq) : UpperSeq[i] = c]]

LowerChar(c) == IF c \in UpperSet THEN LowerOf[c] ELSE c

\* str.lower()
Lower(s) == AsSeq([i \in 1..Len(s) |-> LowerChar(s[i])])

\* s[i:] with i counted from 0, as Python slices
From(s, i) == SubSeq(s, i + 1, Len(s))

RECURSIVE SkipSpace(_, _)
\* the first index >= i of s that holds no whitespace (Len(s)+1 if none)
SkipSpace(s, i) ==
    IF i > Len(s) \/ ~IsSpace(s[i]) THEN i ELSE SkipSpace(s, i + 1)

RECURSIVE SkipSpaceBack(_, _)
\* the last index <= i of s that holds no whitespace (0 if none)
SkipSpaceBack(s, i) ==
    IF i < 1 \/ ~IsSpace(s[i]) THEN i ELSE SkipSpaceBack(s, i - 1)

\* str.strip()
Strip(s) == SubSeq(s, SkipSpace(s, 1), SkipSpaceBack(s, Len(s)))

RECURSIVE RStrip(_, _)
\* str.rstrip(chars)
RStrip(s, chars) ==
    IF s # <<>> /\ s[Len(s)] \in chars
    THEN RStrip(SubSeq(s, 1, Len(s) - 1), chars)
    ELSE s

RECURSIVE WordEnd(_, _)
\* the index after the run of non-whitespace that starts at i
WordEnd(s, i) ==
    IF i > Len(s) \/ IsSpace(s[i]) THEN i ELSE WordEnd(s, i + 1)

RECURSIVE SplitFrom(_, _)
SplitFrom(s, i) ==
    LET a == SkipSpace(s, i)
        b == WordEnd(s, a)
    IN  IF a > Len(s) THEN <<>>
        ELSE <<SubSeq(s, a, b - 1)>> \o SplitFrom(s, b)

\* str.split(): the words between runs of whitespace
Split(s) == SplitFrom(s, 1)

RECURSIVE Join(_, _)
\* sep.join(parts)
Join(sep, parts) ==
    IF parts = <<>> THEN <<>>
    ELSE IF Len(parts) = 1 THEN parts[1]
    ELSE parts[1] \o sep \o Join(sep, Tail(parts))

\* the first index >= i of s that holds c (0 if none)
FindChar(s, c, i) ==
    LET hits == {k \in i..Len(s) : s[k] = c}
    IN  IF hits = {} THEN 0 ELSE CHOOSE k \in hits : \A j \in hits : k <= j

\* the character at index i, or "" past the end: no class holds ""
At(s, i) == IF i >= 1 /\ i <= Len(s) THEN s[i] ELSE ""

\* str.endswith(('.', ':', ';'))
EndsWithAny(s, chars) == s # <<>> /\ s[Len(s)] \in chars


(***************************************************************************)
(* Configuration: the page range and the word lists.                       *)
(***************************************************************************)

DICT_START_PAGE == 8
DICT_END_PAGE == 1804

SENTENCE_STARTERS == {Chars(w) : w \in {
    "the", "a", "an", "in", "on", "at", "by", "for", "to", "of",
    "it", "its", "this", "that", "these", "those", "they", "them",
    "he", "she", "his", "her", "we", "our", "but", "and", "or",
    "if", "as", "so", "yet", "nor", "not", "no", "all", "any",
    "both", "each", "every", "some", "such", "than",
    "one", "two", "three", "four", "five", "six", "seven", "eight",
    "from", "with", "into", "upon", "over", "under", "through",
    "between", "among", "about", "during", "before", "after",
    "since", "while", "when", "where", "which", "what", "who",
    "how", "there", "here", "thus", "hence", "therefore",
    "however", "moreover", "furthermore", "nevertheless",
    "according", "although", "because", "whether", "like",
    "many", "most", "much", "more", "less", "few", "other",
    "another", "only", "just", "even", "still", "also", "too"}}

FRAG_ENDERS == {Chars(w) : w \in {
    "the", "a", "an", "of", "in", "on", "at", "to", "for", "by",
    "with", "from", "and", "or", "but", "as", "is", "was", "are",
    "were", "be", "been", "being", "has", "had", "have", "its",
    "his", "her", "he", "she", "it", "they", "we", "our", "their",
    "that", "this", "those", "these", "which", "who", "whom",
    "not", "no", "nor", "so", "than", "if", "st"}}

FRAG_INTERNALS == {Chars(w) : w \in {
    "the", "a", "an", "is", "was", "are", "were", "be",
    "that", "which", "who", "whom", "has", "had", "have",
    "not", "also", "been", "being", "its", "his", "her",
    "their", "our", "my", "your", "can", "could", "would",
    "should", "will", "shall", "may", "might", "must",
    "do", "does", "did", "very", "just", "even", "still"}}

\* the inline set of the second internal-word test of _is_valid_term
FRAG_DECISIVE == {Chars(w) : w \in {"the", "is", "was", "are", "were"}}

TRIM_LOWER == {Chars(w) : w \in {
    "the", "a", "an", "in", "on", "at", "as", "or", "and",
    "its", "this", "that", "these", "those", "all", "old",
    "one", "two", "for", "but", "not", "from", "with", "new",
    "first", "second", "third", "last", "next", "other",
    "great", "good", "long", "high", "deep", "early", "late",
    "most", "many", "some", "each", "every", "such"}}

SINGLE_WORD_EXCLUSIONS == {Chars(w) : w \in {
    "very", "also", "just", "even", "still", "yet", "only",
    "often", "always", "never", "rather", "quite",
    "traditional", "finally", "similarly", "conversely",
    "originally", "essentially", "generally", "consequently",
    "alternatively", "accordingly", "subsequently", "nevertheless",
    "furthermore", "moreover", "whereas", "whereby", "thereby",
    "nonetheless", "otherwise", "indeed", "certainly",
    "perhaps", "probably", "possibly", "apparently", "recently",
    "clearly", "obviously", "simply", "merely", "purely",
    "primarily", "mainly", "largely", "partly", "partly",
    "already", "sometimes", "everywhere", "anywhere", "nowhere"}}

(***************************************************************************)
(* Block classifier.                                                       *)
(***************************************************************************)

\* the number of indices of s whose character satisfies the class
CountAlpha(s) == Cardinality({i \in 1..Len(s) : IsAlpha(s[i])})
CountUpper(s) == Cardinality({i \in 1..Len(s) : IsAlpha(s[i]) /\ IsUpper(s[i])})

\* is_running_header whose ratio test is strict: the mutation of C16
is_running_header_StrictRatio(text) ==
    LET stripped == RStrip(Strip(text), {"."})
    IN  /\ stripped # <<>>
        /\ CountAlpha(stripped) > 0
        /\ 10 * CountUpper(stripped) > 9 * CountAlpha(stripped)
        /\ 2 <= Len(stripped)
        /\ Len(stripped) <= 50

\* upper_ratio >= 0.9 is compared in integers: 10 * upper >= 9 * alpha
is_running_header(text) ==
    LET stripped == RStrip(Strip(text), {"."})
    IN  /\ stripped # <<>>
        /\ CountAlpha(stripped) > 0
        /\ 10 * CountUpper(stripped) >= 9 * CountAlpha(stripped)
        /\ 2 <= Len(stripped)
        /\ Len(stripped) <= 50

\* ^\d{1,4}$ on the stripped text
is_page_number(text) ==
    LET stripped == Strip(text)
    IN  /\ 1 <= Len(stripped)
        /\ Len(stripped) <= 4
        /\ \A i \in 1..Len(stripped) : IsDigit(stripped[i])

(***************************************************************************)
(* Term validator.                                                         *)
(***************************************************************************)

\* _is_valid_term whose internal words leave out the last word: the
\* mutation of C17
_is_valid_term_InnerWords(term) ==
    LET words == Split(term)
        first_word == Lower(words[1])
        last_word == Lower(words[Len(words)])
        internal_words ==
            AsSeq([i \in 1..(Len(words) - 2) |-> Lower(words[i + 1])])
        internal_frag_count ==
            Cardinality({i \in DOMAIN internal_words :
                            internal_words[i] \in FRAG_INTERNALS})
    IN  IF words = <<>> THEN FALSE
        ELSE IF first_word \in SENTENCE_STARTERS THEN FALSE
        ELSE IF last_word \in FRAG_ENDERS THEN FALSE
        ELSE IF Len(words) > 5 THEN FALSE
        ELSE IF Len(words) >= 3 /\ internal_frag_count >= 2 THEN FALSE
        ELSE IF Len(words) >= 3
                /\ \E i \in DOMAIN internal_words :
                       internal_words[i] \in FRAG_DECISIVE THEN FALSE
        ELSE TRUE

_is_valid_term(term) ==
    LET words == Split(term)
        first_word == Lower(words[1])
        last_word == Lower(words[Len(words)])
        internal_words ==
            AsSeq([i \in 1..(Len(words) - 1) |-> Lower(words[i + 1])])
        internal_frag_count ==
            Cardinality({i \in DOMAIN internal_words :
                            internal_words[i] \in FRAG_INTERNALS})
    IN  IF words = <<>> THEN FALSE
        ELSE IF first_word \in SENTENCE_STARTERS THEN FALSE
        ELSE IF last_word \in FRAG_ENDERS THEN FALSE
        ELSE IF Len(words) > 5 THEN FALSE
        ELSE IF Len(words) >= 3 /\ internal_frag_count >= 2 THEN FALSE
        ELSE IF Len(words) >= 3
                /\ \E i \in DOMAIN internal_words :
                       internal_words[i] \in FRAG_DECISIVE THEN FALSE
        ELSE TRUE

(***************************************************************************)
(* Heading detector.  Each regular expression is matched as re.match       *)
(* matches it: anchored at the start, the first match in backtracking      *)
(* order.  A match is the index of the last character of group 1, 0 is no  *)
(* match.                                                                  *)
(***************************************************************************)

\* [a-z\s,'\-]
IsTermChar(c) == c \in LowerSet \/ IsSpace(c) \/ c \in {",", "'", "-"}
\* [A-Z'"]
IsDefStart(c) == c \in UpperSet \/ c \in {"'", "\""}

\* [Ss]ee at index i
SeeAt(line, i) ==
    /\ At(line, i) \in {"S", "s"}
    /\ At(line, i + 1) = "e"
    /\ At(line, i + 2) = "e"

\* .* from index i: to the end of the line, a newline excluded
DotStarEnd(line, i) ==
    LET n == FindChar(line, "\n", i)
    IN  IF n = 0 THEN Len(line) ELSE n - 1

\* (?:\s*\([^)]*\))?\s+([A-Z'"].*) at index j: the index where group 2
\* starts, 0 if neither alternative matches.  The parenthetical is tried
\* first; [^)]* ends at the first ')' and \s* and \s+ take all the
\* whitespace, since what follows them is no whitespace.
Tail1(line, j) ==
    LET p == SkipSpace(line, j)
        c == FindChar(line, ")", p + 1)
        d == SkipSpace(line, c + 1)
        withParen ==
            /\ At(line, p) = "("
            /\ c # 0
            /\ IsSpace(At(line, c + 1))
            /\ IsDefStart(At(line, d))
        without == IsSpace(At(line, j)) /\ IsDefStart(At(line, p))
    IN  IF withParen THEN d ELSE IF without THEN p ELSE 0

\* \s+\( at index j: the index of the '(' (m.end() counted from 1)
Tail1b(line, j) ==
    LET p == SkipSpace(line, j)
    IN  IF IsSpace(At(line, j)) /\ At(line, p) = "(" THEN p ELSE 0

\* \s+[Ss]ee\s+ at index j
Tail3(line, j) ==
    LET p == SkipSpace(line, j)
    IN  IF IsSpace(At(line, j)) /\ SeeAt(line, p) /\ IsSpace(At(line, p + 3))
        THEN p ELSE 0

\* \s+\([Ss]ee\s+(?:also\s+)?[^)]+\) at index j.  After "(see" the rest
\* \s+(?:also\s+)?[^)]+\) matches exactly when a whitespace follows and the
\* first ')' after it is at least two characters further: \s+ can give
\* back all but one whitespace and [^)]+ takes what is left, "also" too.
Tail4(line, j) ==
    LET p == SkipSpace(line, j)
        c == FindChar(line, ")", p + 4)
    IN  IF /\ IsSpace(At(line, j))
           /\ At(line, p) = "("
           /\ SeeAt(line, p + 1)
           /\ IsSpace(At(line, p + 4))
           /\ c >= p + 6
        THEN p ELSE 0

TailOf(pattern, line, j) ==
    CASE pattern = "1"  -> Tail1(line, j)
      [] pattern = "1b" -> Tail1b(line, j)
      [] pattern = "3"  -> Tail3(line, j)
      [] pattern = "4"  -> Tail4(line, j)

RECURSIVE LazyTermFrom(_, _, _)
\* the lazy group ([a-z][a-z\s,'\-]+?): the shortest run line[1..k] that
\* the pattern's tail follows
LazyTermFrom(pattern, line, k) ==
    IF k > Len(line) \/ ~IsTermChar(line[k]) THEN 0
    ELSE IF TailOf(pattern, line, k + 1) # 0 THEN k
    ELSE LazyTermFrom(pattern, line, k + 1)

LazyTerm(pattern, line) ==
    IF At(line, 1) \in LowerSet THEN LazyTermFrom(pattern, line, 2) ELSE 0

\* m.group(1).strip().rstrip('.,')
TermOf(line, k) == RStrip(Strip(SubSeq(line, 1, k)), {".", ","})

RECURSIVE LowerRunEnd(_, _)
\* the index after the run of [a-z] that starts at i
LowerRunEnd(line, i) ==
    IF At(line, i) \in LowerSet THEN LowerRunEnd(line, i + 1) ELSE i

\* [A-Z][a-z]+ at index i: the index of its last character, 0 if no match
CapWordEnd(line, i) ==
    IF At(line, i) \in UpperSet /\ At(line, i + 1) \in LowerSet
    THEN LowerRunEnd(line, i + 1) - 1
    ELSE 0

RECURSIVE CapRun(_, _)
\* [A-Z][a-z]+(?:\s+[A-Z][a-z]+)* taken greedily from a word that ends at
\* e: the ends of the words of the run, the first word first
CapRun(line, e) ==
    LET p == SkipSpace(line, e + 1)
        n == CapWordEnd(line, p)
    IN  IF IsSpace(At(line, e + 1)) /\ n # 0
        THEN <<e>> \o CapRun(line, n)
        ELSE <<e>>

\* \s+([A-Z][a-z].*) at index j: the index where group 2 starts
Tail2(line, j) ==
    LET p == SkipSpace(line, j)
    IN  IF /\ IsSpace(At(line, j))
           /\ At(line, p) \in UpperSet
           /\ At(line, p + 1) \in LowerSet
        THEN p ELSE 0

RECURSIVE GreedyCap(_, _, _)
\* the run given back word by word until the tail follows
GreedyCap(line, ends, m) ==
    IF m = 0 THEN 0
    ELSE IF Tail2(line, ends[m] + 1) # 0 THEN ends[m]
    ELSE GreedyCap(line, ends, m - 1)

Pattern2Match(line) ==
    LET e1 == CapWordEnd(line, 1)
        ends == CapRun(line, e1)
    IN  IF e1 = 0 THEN 0 ELSE GreedyCap(line, ends, Len(ends))

\* TrimParts that removes nothing: the mutation of C24
TrimPartsNone(parts) == parts

RECURSIVE TrimParts(_)
\* while len(parts) > 1 and parts[-1].lower() in TRIM_LOWER: parts.pop()
TrimParts(parts) ==
    IF Len(parts) > 1 /\ Lower(parts[Len(parts)]) \in TRIM_LOWER
    THEN TrimParts(SubSeq(parts, 1, Len(parts) - 1))
    ELSE parts

\* pattern 2's term: the captured run, trailing trim-list words removed
Pattern2Term(line, k) ==
    Join(<<" ">>, TrimParts(Split(Strip(SubSeq(line, 1, k)))))

\* Pattern 1 without the validator gate: the mutation of C3
Pattern1Unvalidated(line) ==
    LET k == LazyTerm("1", line)
        term == TermOf(line, k)
        g2 == Tail1(line, k + 1)
        rest == SubSeq(line, g2, DotStarEnd(line, g2))
    IN  IF /\ k # 0
           /\ 2 <= Len(term) /\ Len(term) <= 50 /\ Len(rest) >= 10
        THEN term ELSE None

\* Pattern 1: lowercase term + capitalized definition
Pattern1(line) ==
    LET k == LazyTerm("1", line)
        term == TermOf(line, k)
        g2 == Tail1(line, k + 1)
        rest == SubSeq(line, g2, DotStarEnd(line, g2))
    IN  IF /\ k # 0
           /\ 2 <= Len(term) /\ Len(term) <= 50 /\ Len(rest) >= 10
           /\ _is_valid_term(term)
        THEN term ELSE None

\* Pattern 1b: lowercase term + parenthetical that opens with "(see "
Pattern1b(line) ==
    LET k == LazyTerm("1b", line)
        term == TermOf(line, k)
        paren == Tail1b(line, k + 1)
    IN  IF /\ k # 0
           /\ SeeAt(line, paren + 1) /\ IsSpace(At(line, paren + 4))
           /\ 2 <= Len(term) /\ Len(term) <= 50
           /\ _is_valid_term(term)
        THEN term ELSE None

\* Pattern 2 without the validator gate: the mutation of C11
Pattern2Unvalidated(line) ==
    LET k == Pattern2Match(line)
        term == Pattern2Term(line, k)
        rest == Strip(From(line, Len(term)))
    IN  IF /\ k # 0
           /\ Len(term) <= 35 /\ Len(rest) >= 10
           /\ ~is_running_header(term)
        THEN term ELSE None

\* Pattern 2: capitalized proper-noun term + definition
Pattern2(line) ==
    LET k == Pattern2Match(line)
        term == Pattern2Term(line, k)
        rest == Strip(From(line, Len(term)))
    IN  IF /\ k # 0
           /\ Len(term) <= 35 /\ Len(rest) >= 10
           /\ ~is_running_header(term)
           /\ _is_valid_term(term)
        THEN term ELSE None

\* Pattern 3: cross-reference, "aureole See halo."
Pattern3(line) ==
    LET k == LazyTerm("3", line)
        term == TermOf(line, k)
    IN  IF k # 0 /\ 2 <= Len(term) /\ Len(term) <= 50
        THEN term ELSE None

\* Pattern 4: lowercase term + parenthetical cross-reference
Pattern4(line) ==
    LET k == LazyTerm("4", line)
        term == TermOf(line, k)
    IN  IF k # 0 /\ 2 <= Len(term) /\ Len(term) <= 50
        THEN term ELSE None

\* the patterns in the order the code tries them; the first term wins
detect_entry_heading(text) ==
    LET line == Strip(text)
    IN  IF Len(line) < 5 THEN None
        ELSE IF Pattern1(line) # None THEN Pattern1(line)
        ELSE IF Pattern1b(line) # None THEN Pattern1b(line)
        ELSE IF Pattern2(line) # None THEN Pattern2(line)
        ELSE IF Pattern3(line) # None THEN Pattern3(line)
        ELSE Pattern4(line)

(***************************************************************************)
(* Finalization of a definition.                                           *)
(***************************************************************************)

\* re.sub(r'\s+', ' ', text): the first whitespace of a run becomes one
\* space, the others go
CollapseSpace(s) ==
    LET marked == [k \in 1..Len(s) |->
                      IF ~IsSpace(s[k]) THEN s[k]
                      ELSE IF k > 1 /\ IsSpace(s[k - 1]) THEN ""
                      ELSE " "]
    IN  SelectSeq(marked, LAMBDA c : c # "")

\* text.replace(SOFT_HYPHEN, '')
RemoveSoftHyphens(s) == SelectSeq(s, LAMBDA c : c # SOFT_HYPHEN)

RECURSIVE SpacesBefore(_, _)
\* the number of spaces in a row that end right before index k
SpacesBefore(s, k) ==
    IF k > 1 /\ s[k - 1] = " " THEN 1 + SpacesBefore(s, k - 1) ELSE 0

\* text.replace('  ', ' '): one pass, left to right, no overlap: of a run
\* of spaces the second, the fourth, ... go
ReplaceDoubleSpace(s) ==
    LET marked == [k \in 1..Len(s) |->
                      IF s[k] = " " /\ SpacesBefore(s, k) % 2 = 1
                      THEN "" ELSE s[k]]
    IN  SelectSeq(marked, LAMBDA c : c # "")

clean_definition(text) ==
    ReplaceDoubleSpace(RemoveSoftHyphens(Strip(CollapseSpace(text))))

\* is_cross_reference that lets a text of 120 characters pass: the
\* mutation of C15
is_cross_reference_UpTo120(definition) ==
    LET d == Strip(definition)
    IN  \/ SeeAt(d, 1) /\ IsSpace(At(d, 4)) /\ Len(d) <= 120
        \/ At(d, 1) = "(" /\ SeeAt(d, 2) /\ IsSpace(At(d, 5)) /\ Len(d) <= 120

is_cross_reference(definition) ==
    LET d == Strip(definition)
    IN  \/ SeeAt(d, 1) /\ IsSpace(At(d, 4)) /\ Len(d) < 120
        \/ At(d, 1) = "(" /\ SeeAt(d, 2) /\ IsSpace(At(d, 5)) /\ Len(d) < 120

(***************************************************************************)
(* Blocks.  A block is [type, lines]; a line is the sequence of its spans' *)
(* texts.                                                                  *)
(***************************************************************************)

RECURSIVE Concat(_)
\* the texts of a sequence joined with nothing between them
Concat(texts) ==
    IF texts = <<>> THEN <<>> ELSE Head(texts) \o Concat(Tail(texts))

\* the text of one line: its spans' texts, concatenated
LineText(line) == Concat(line)

\* the texts of the lines of a block
BlockLines(block) ==
    AsSeq([k \in 1..Len(block.lines) |-> LineText(block.lines[k])])

get_block_text(block) ==
    IF block.type # 0 THEN <<>>
    ELSE Join(<<"\n">>, BlockLines(block))

\* get_block_first_line reading the last line of the block: the mutation
\* of C2
get_block_last_line(block) ==
    IF block.type # 0 THEN <<>>
    ELSE IF block.lines = <<>> THEN <<>>
    ELSE Strip(LineText(block.lines[Len(block.lines)]))

get_block_first_line(block) ==
    IF block.type # 0 THEN <<>>
    ELSE IF block.lines = <<>> THEN <<>>
    ELSE Strip(LineText(block.lines[1]))

\* a text block of one-span lines
TextBlock(lines) ==
    [type |-> 0,
     lines |-> AsSeq([k \in 1..Len(lines) |-> <<Chars(lines[k])>>])]

\* the blocks a document of the model is made of
Blocks == <<
    \* 1: a heading (pattern 1), its first line in two spans
    [type |-> 0, lines |-> << <<Chars("mandrake The mandrake is a "),
                                 Chars("fertility symbol and protective charm.")>> >>],
    \* 2: a continuation
    TextBlock(<<"It was harvested under strict ritual conditions.">>),
    \* 3: a standalone cross-reference (pattern 3)
    TextBlock(<<"aureole See halo.">>),
    \* 4: a running header
    TextBlock(<<"AUTOMOBILE">>),
    \* 5: a heading whose later lines hold a header, a page number, an
    \*    empty line and a line that reads like a heading
    TextBlock(<<"phoenix The phoenix rises again.", "SWASTIKA", "59", " ",
                "aureole See halo.">>),
    \* 6: a continuation whose second line reads like a heading
    TextBlock(<<"  It is reborn from its ashes. ", "311",
                "mandrake The mandrake is a fertility symbol.">>),
    \* 7: a capitalized heading (pattern 2) that only points elsewhere
    TextBlock(<<"Phoenix See the bird of fire.">>),
    \* 8: a cross-reference whose term is a common word
    TextBlock(<<"very See halo.">>),
    \* 9: an image block
    [type |-> 1, lines |-> <<>>],
    \* 10: a running header whose first line reads like a heading
    TextBlock(<<"Mc Do NALD DICTIONARY OF SYMBOLS XIV">>),
    \* 11: a text block whose first line has no span
    [type |-> 0, lines |-> << <<>>,
                              <<Chars("It grows under the gallows.")>> >>],
    \* 12: a text block with no lines
    [type |-> 0, lines |-> <<>>]
>>

BlockIds == 1..Len(Blocks)

\* the bounds of the documents read
MaxBlocks == 3
MaxPages == 2

Min(a, b) == IF a <= b THEN a ELSE b

\* Python's truth of a term: neither None nor ''
Truthy(term) == term # None /\ term # <<>>

(***************************************************************************)
(* extract_entries.                                                        *)
(***************************************************************************)

\* PageEnd that forgets DICT_END_PAGE: the mutation of C18
PageEndOfDocument == doc_len

\* range(DICT_START_PAGE, min(DICT_END_PAGE, len(doc))) ends here
PageEnd == Min(DICT_END_PAGE, doc_len)

\* a stripped line that is kept in a definition
KeptLine(lt) == lt # <<>> /\ ~is_running_header(lt) /\ ~is_page_number(lt)

RECURSIVE KeptFrom(_, _)
\* the stripped lines of a block from line k on that are kept, in order
KeptFrom(lines, k) ==
    IF k > Len(lines) THEN <<>>
    ELSE IF KeptLine(Strip(lines[k]))
         THEN <<Strip(lines[k])>> \o KeptFrom(lines, k + 1)
    ELSE KeptFrom(lines, k + 1)

\* DefParts that forgets the lines after the first: the mutation of C1
DefPartsFirstLineOnly(block, first, term) ==
    LET rest_of_first == Strip(From(first, Len(term)))
    IN  IF rest_of_first # <<>> THEN <<rest_of_first>> ELSE <<>>

\* def_parts: the rest of the first line, then the kept lines 2+
DefParts(block, first, term) ==
    LET rest_of_first == Strip(From(first, Len(term)))
    IN  (IF rest_of_first # <<>> THEN <<rest_of_first>> ELSE <<>>)
        \o KeptFrom(BlockLines(block), 2)

\* Finalized that takes the page the loop is on, not the page that opened
\* the entry: the mutation of C13
FinalizedOnClosingPage(list, term, lines, page) ==
    LET definition == clean_definition(Join(<<" ">>, lines))
    IN  IF Truthy(term) /\ lines # <<>> /\ definition # <<>>
        THEN Append(list, [term |-> term,
                           definition |-> definition,
                           page |-> page_num + 1,
                           is_cross_ref |-> is_cross_reference(definition)])
        ELSE list

\* Finalized without its three tests: the mutation of C19
FinalizedUnguarded(list, term, lines, page) ==
    LET definition == clean_definition(Join(<<" ">>, lines))
    IN  Append(list, [term |-> term,
                      definition |-> definition,
                      page |-> page + 1,
                      is_cross_ref |-> is_cross_reference(definition)])

\* the entry list after the open entry is saved
Finalized(list, term, lines, page) ==
    LET definition == clean_definition(Join(<<" ">>, lines))
    IN  IF Truthy(term) /\ lines # <<>> /\ definition # <<>>
        THEN Append(list, [term |-> term,
                           definition |-> definition,
                           page |-> page + 1,
                           is_cross_ref |-> is_cross_reference(definition)])
        ELSE list

\* Skipped without the running-header test: the mutation of C10
SkippedNoHeaderTest(block) ==
    LET full_text == Strip(get_block_text(block))
    IN  \/ block.type # 0
        \/ full_text = <<>>
        \/ get_block_first_line(block) = <<>>
        \/ is_page_number(Strip(full_text))

\* the block is one the loop passes over with `continue`
Skipped(block) ==
    LET full_text == Strip(get_block_text(block))
    IN  \/ block.type # 0
        \/ full_text = <<>>
        \/ get_block_first_line(block) = <<>>
        \/ is_running_header(full_text)
        \/ is_page_number(Strip(full_text))

\* what the loop computes from a block alone, block by block
SkippedOf == [b \in BlockIds |-> Skipped(Blocks[b])]
FirstLineOf == [b \in BlockIds |-> get_block_first_line(Blocks[b])]
DetectedOf == [b \in BlockIds |-> detect_entry_heading(FirstLineOf[b])]
DefPartsOf ==
    [b \in BlockIds |-> DefParts(Blocks[b], FirstLineOf[b], DetectedOf[b])]
KeptLinesOf == [b \in BlockIds |-> KeptFrom(BlockLines(Blocks[b]), 1)]

Read(b) ==
    /\ pc = "extract"
    /\ page_num < PageEnd
    /\ Len(doc) < MaxBlocks
    /\ doc' = Append(doc, [page |-> page_num, block |-> b])

\* SkipBlock that closes the open entry without saving it: the mutation
\* of C28
SkipBlockClosing(b) ==
    /\ Read(b)
    /\ SkippedOf[b]
    /\ current_term' = None
    /\ UNCHANGED <<callVars, pc, doc_len, page_num, entries,
                   current_definition_lines, current_page, first_line,
                   detected_term, postVars>>

\* one turn of the block loop that ends in `continue`
SkipBlock(b) ==
    /\ Read(b)
    /\ SkippedOf[b]
    /\ UNCHANGED <<callVars, pc, doc_len, page_num, entries, current_term,
                   current_definition_lines, current_page, first_line,
                   detected_term, postVars>>

\* one turn of the block loop on a block whose first line is a heading
StartEntry(b) ==
    LET first == FirstLineOf[b]
        term == DetectedOf[b]
    IN  /\ Read(b)
        /\ ~SkippedOf[b]
        /\ Truthy(term)
        /\ first_line' = first
        /\ detected_term' = term
        /\ entries' = Finalized(entries, current_term,
                                current_definition_lines, current_page)
        /\ current_term' = term
        /\ current_page' = page_num
        /\ current_definition_lines' = DefPartsOf[b]
        /\ UNCHANGED <<callVars, pc, doc_len, page_num, postVars>>

\* ContinueEntry without the test that an entry is open: the mutation of
\* C27
ContinueEntryWhenIdle(b) ==
    LET first == FirstLineOf[b]
        term == DetectedOf[b]
    IN  /\ Read(b)
        /\ ~SkippedOf[b]
        /\ ~Truthy(term)
        /\ first_line' = first
        /\ detected_term' = term
        /\ current_definition_lines' =
               current_definition_lines \o KeptLinesOf[b]
        /\ UNCHANGED <<callVars, pc, doc_len, page_num, entries, current_term,
                       current_page, postVars>>

\* one turn of the block loop on a block whose first line is no heading
ContinueEntry(b) ==
    LET first == FirstLineOf[b]
        term == DetectedOf[b]
    IN  /\ Read(b)
        /\ ~SkippedOf[b]
        /\ ~Truthy(term)
        /\ first_line' = first
        /\ detected_term' = term
        /\ current_definition_lines' =
               IF current_term # None
               THEN current_definition_lines \o KeptLinesOf[b]
               ELSE current_definition_lines
        /\ UNCHANGED <<callVars, pc, doc_len, page_num, entries, current_term,
                       current_page, postVars>>

\* the pages of a long document that hold blocks are its first
\* MaxPages - 1 pages of the range and the last one: the page after
\* page_num, or the last page of the range when the pages between hold no
\* blocks
PageAfter ==
    IF \/ page_num + 1 < DICT_START_PAGE + MaxPages - 1
       \/ page_num + 1 >= PageEnd - 1
    THEN page_num + 1
    ELSE PageEnd - 1

\* the page's blocks are read: the page loop moves on, over the pages
\* without blocks too
NextPage ==
    /\ pc = "extract"
    /\ page_num < PageEnd
    /\ page_num' = PageAfter
    /\ UNCHANGED <<callVars, pc, doc_len, doc, entries, current_term,
                   current_definition_lines, current_page, first_line,
                   detected_term, postVars>>

\* EndOfInput that returns the list without the open entry: the mutation
\* of C12
EndOfInputDiscarding ==
    /\ pc = "extract"
    /\ page_num >= PageEnd
    /\ entries' = entries
    /\ raw' = entries'
    /\ pc' = "post"
    /\ UNCHANGED <<callVars, extractVars, first_line, detected_term, entry_idx, cleaned,
                   seen_terms>>

\* the page loop is over: the last entry is saved and the list is handed
\* to post_process_entries
EndOfInput ==
    /\ pc = "extract"
    /\ page_num >= PageEnd
    /\ entries' = Finalized(entries, current_term,
                            current_definition_lines, current_page)
    /\ raw' = entries'
    /\ pc' = "post"
    /\ UNCHANGED <<callVars, extractVars, first_line, detected_term, entry_idx, cleaned,
                   seen_terms>>

(***************************************************************************)
(* post_process_entries.  cleaned holds the records of the list it was     *)
(* given, not copies: a merge writes to the record both lists hold.        *)
(***************************************************************************)

\* Kept without the second validator pass: the mutation of C4
KeptWithoutValidator(entry) ==
    /\ ~(Len(entry.term) < 2)
    /\ ~(Len(entry.definition) < 10 /\ ~entry.is_cross_ref)
    /\ ~EndsWithAny(entry.term, {".", ":", ";"})
    /\ ~(Len(entry.term) > 60)
    /\ ~(Len(Split(entry.term)) = 1
         /\ Lower(entry.term) \in SINGLE_WORD_EXCLUSIONS)

\* Kept without the short-definition rule: the mutation of C8
KeptAnyDefinition(entry) ==
    /\ ~(Len(entry.term) < 2)
    /\ ~EndsWithAny(entry.term, {".", ":", ";"})
    /\ ~(Len(entry.term) > 60)
    /\ ~(Len(Split(entry.term)) = 1
         /\ Lower(entry.term) \in SINGLE_WORD_EXCLUSIONS)
    /\ _is_valid_term(entry.term)

\* Kept whose short-definition rule spares no cross-reference: the mutation
\* of C9
KeptNoCrossRefExemption(entry) ==
    /\ ~(Len(entry.term) < 2)
    /\ ~(Len(entry.definition) < 10)
    /\ ~EndsWithAny(entry.term, {".", ":", ";"})
    /\ ~(Len(entry.term) > 60)
    /\ ~(Len(Split(entry.term)) = 1
         /\ Lower(entry.term) \in SINGLE_WORD_EXCLUSIONS)
    /\ _is_valid_term(entry.term)

\* the entry passes every `continue` before the duplicate test
Kept(entry) ==
    /\ ~(Len(entry.term) < 2)
    /\ ~(Len(entry.definition) < 10 /\ ~entry.is_cross_ref)
    /\ ~EndsWithAny(entry.term, {".", ":", ";"})
    /\ ~(Len(entry.term) > 60)
    /\ ~(Len(Split(entry.term)) = 1
         /\ Lower(entry.term) \in SINGLE_WORD_EXCLUSIONS)
    /\ _is_valid_term(entry.term)

RECURSIVE LastWithTerm(_, _, _)
\* for prev in reversed(cleaned): the first whose term.lower() is that one
LastWithTerm(list, refs, term_lower) ==
    IF refs = <<>> THEN 0
    ELSE IF Lower(list[refs[Len(refs)]].term) = term_lower
         THEN refs[Len(refs)]
    ELSE LastWithTerm(list, SubSeq(refs, 1, Len(refs) - 1), term_lower)

\* DropEntry that comes after the duplicate test: the definition of a
\* dropped entry is appended when its term was seen: the mutation of C23
DropEntryAfterMerge ==
    LET term_lower == Lower(entries[entry_idx].term)
        prev == LastWithTerm(entries, cleaned, term_lower)
    IN  /\ pc = "post"
        /\ entry_idx <= Len(entries)
        /\ ~Kept(entries[entry_idx])
        /\ entries' =
               IF term_lower \in seen_terms /\ prev # 0
               THEN [entries EXCEPT ![prev].definition =
                         @ \o <<" ">> \o entries[entry_idx].definition]
               ELSE entries
        /\ entry_idx' = entry_idx + 1
        /\ UNCHANGED <<callVars, pc, extractVars, first_line, detected_term,
                       raw, cleaned, seen_terms>>

\* one turn of the loop that ends in a `continue` of the drop rules
DropEntry ==
    /\ pc = "post"
    /\ entry_idx <= Len(entries)
    /\ ~Kept(entries[entry_idx])
    /\ entry_idx' = entry_idx + 1
    /\ UNCHANGED <<callVars, pc, extractVars, entries, first_line, detected_term, raw,
                   cleaned, seen_terms>>

\* MergeEntry that appends without the separating space: the mutation of C6
MergeEntryNoSpace ==
    LET term_lower == Lower(entries[entry_idx].term)
        prev == LastWithTerm(entries, cleaned, term_lower)
    IN  /\ pc = "post"
        /\ entry_idx <= Len(entries)
        /\ Kept(entries[entry_idx])
        /\ term_lower \in seen_terms
        /\ entries' =
               IF prev = 0 THEN entries
               ELSE [entries EXCEPT ![prev].definition =
                         @ \o entries[entry_idx].definition]
        /\ entry_idx' = entry_idx + 1
        /\ UNCHANGED <<callVars, pc, extractVars, first_line, detected_term, raw,
                       cleaned, seen_terms>>

\* one turn of the loop on a duplicate term: its definition is appended
MergeEntry ==
    LET term_lower == Lower(entries[entry_idx].term)
        prev == LastWithTerm(entries, cleaned, term_lower)
    IN  /\ pc = "post"
        /\ entry_idx <= Len(entries)
        /\ Kept(entries[entry_idx])
        /\ term_lower \in seen_terms
        /\ entries' =
               IF prev = 0 THEN entries
               ELSE [entries EXCEPT ![prev].definition =
                         @ \o <<" ">> \o entries[entry_idx].definition]
        /\ entry_idx' = entry_idx + 1
        /\ UNCHANGED <<callVars, pc, extractVars, first_line, detected_term, raw,
                       cleaned, seen_terms>>

\* AcceptEntry that remembers the term as written, not lowercased: the
\* mutation of C5
AcceptEntryCaseSensitive ==
    LET term_lower == Lower(entries[entry_idx].term)
    IN  /\ pc = "post"
        /\ entry_idx <= Len(entries)
        /\ Kept(entries[entry_idx])
        /\ term_lower \notin seen_terms
        /\ seen_terms' = seen_terms \cup {entries[entry_idx].term}
        /\ cleaned' = Append(cleaned, entry_idx)
        /\ entry_idx' = entry_idx + 1
        /\ UNCHANGED <<callVars, pc, extractVars, entries, first_line, detected_term,
                       raw>>

\* AcceptEntry that puts the entry at the head of the list: the mutation
\* of C7
AcceptEntryAtFront ==
    LET term_lower == Lower(entries[entry_idx].term)
    IN  /\ pc = "post"
        /\ entry_idx <= Len(entries)
        /\ Kept(entries[entry_idx])
        /\ term_lower \notin seen_terms
        /\ seen_terms' = seen_terms \cup {term_lower}
        /\ cleaned' = <<entry_idx>> \o cleaned
        /\ entry_idx' = entry_idx + 1
        /\ UNCHANGED <<callVars, pc, extractVars, entries, first_line, detected_term,
                       raw>>

\* one turn of the loop on a term seen for the first time
AcceptEntry ==
    LET term_lower == Lower(entries[entry_idx].term)
    IN  /\ pc = "post"
        /\ entry_idx <= Len(entries)
        /\ Kept(entries[entry_idx])
        /\ term_lower \notin seen_terms
        /\ seen_terms' = seen_terms \cup {term_lower}
        /\ cleaned' = Append(cleaned, entry_idx)
        /\ entry_idx' = entry_idx + 1
        /\ UNCHANGED <<callVars, pc, extractVars, entries, first_line, detected_term,
                       raw>>

\* return cleaned
ReturnCleaned ==
    /\ pc = "post"
    /\ entry_idx > Len(entries)
    /\ pc' = "done"
    /\ UNCHANGED <<callVars, extractVars, entries, first_line, detected_term, postVars>>

\* the list post_process_entries returns
Result == [k \in 1..Len(cleaned) |-> entries[cleaned[k]]]

(***************************************************************************)
(* main(): extract_entries(doc), then post_process_entries(entries).       *)
(***************************************************************************)

\* len(doc): no page, one page of the range, and a document that goes on
\* after DICT_END_PAGE
DocLens == {0, DICT_START_PAGE + 1, DICT_END_PAGE + 1}

Init ==
    /\ input = <<>>
    /\ output = None
    /\ pc = "extract"
    /\ doc_len \in DocLens
    /\ page_num = DICT_START_PAGE
    /\ doc = <<>>
    /\ entries = <<>>
    /\ current_term = None
    /\ current_definition_lines = <<>>
    /\ current_page = 0
    /\ first_line = <<>>
    /\ detected_term = None
    /\ raw = <<>>
    /\ entry_idx = 1
    /\ cleaned = <<>>
    /\ seen_terms = {}

Next ==
    \/ \E b \in BlockIds : SkipBlock(b)
    \/ \E b \in BlockIds : StartEntry(b)
    \/ \E b \in BlockIds : ContinueEntry(b)
    \/ NextPage
    \/ EndOfInput
    \/ DropEntry
    \/ MergeEntry
    \/ AcceptEntry
    \/ ReturnCleaned

Spec == Init /\ [][Next]_vars

(***************************************************************************)
(* post_process_entries on any list of raw entries.                        *)
(***************************************************************************)

Entry(term, definition, page, is_cross_ref) ==
    [term |-> Chars(term), definition |-> Chars(definition),
     page |-> page, is_cross_ref |-> is_cross_ref]

\* the raw entries a list of the model is made of
RawEntries == {
    Entry("phoenix", "The phoenix rises again.", 9, FALSE),
    Entry("Phoenix", "See the bird of fire.", 10, TRUE),
    Entry("phoenix", "Reborn from ashes.", 11, FALSE),
    Entry("phoenix", "Short.", 12, FALSE),
    Entry("aureole", "See halo.", 9, TRUE),
    \* a definition of 113 characters
    Entry("Aureole",
          "The aureole is the radiance that surrounds the whole figure of a holy person, the sign of the light of the sun.",
          12, FALSE),
    Entry("mandrake", "A charm.", 9, FALSE),
    Entry("very", "See halo.", 9, TRUE),
    Entry("blue for", "The colour of the sky.", 9, FALSE),
    Entry("x", "The unknown quantity.", 9, FALSE),
    Entry("phoenix:", "The phoenix rises again.", 9, FALSE),
    \* a term of 60 characters and one of 61
    Entry("abcdefghij abcdefghij abcdefghij abcdefghij abcdefghijklmnopq",
          "The longest headword.", 9, FALSE),
    Entry("abcdefghij abcdefghij abcdefghij abcdefghij abcdefghijklmnopqr",
          "Too long a headword.", 9, FALSE)
}

\* the bound of the lists given to post_process_entries
MaxRaw == 3

RECURSIVE ListsUpTo(_)
\* the lists of at most n raw entries
ListsUpTo(n) ==
    IF n = 0 THEN {<<>>}
    ELSE LET shorter == ListsUpTo(n - 1)
         IN  shorter \cup {Append(l, e) : l \in shorter, e \in RawEntries}

InitPost ==
    /\ input = <<>>
    /\ output = None
    /\ pc = "post"
    /\ entries \in ListsUpTo(MaxRaw)
    /\ raw = entries
    /\ doc_len = 0
    /\ page_num = DICT_START_PAGE
    /\ doc = <<>>
    /\ current_term = None
    /\ current_definition_lines = <<>>
    /\ current_page = 0
    /\ first_line = <<>>
    /\ detected_term = None
    /\ entry_idx = 1
    /\ cleaned = <<>>
    /\ seen_terms = {}

NextPost ==
    \/ DropEntry
    \/ MergeEntry
    \/ AcceptEntry
    \/ ReturnCleaned

SpecPost == InitPost /\ [][NextPost]_vars

(***************************************************************************)
(* detect_entry_heading on any first line.                                 *)
(***************************************************************************)

\* the words a first line of the model is made of
DetectWords == <<
    Chars("aureole"), Chars("the"), Chars("of"), Chars("See"),
    Chars("halo."), Chars("(see"), Chars("also simurg)"),
    Chars("This charm was used."), Chars("Abraham"), Chars("The"),
    Chars("Old"), Chars("Testament says that")
>>

\* the bound of the first lines given to detect_entry_heading
MaxWords == 3

RECURSIVE WordListsUpTo(_)
\* the lists of 1 to n words
WordListsUpTo(n) ==
    IF n = 0 THEN {<<>>}
    ELSE LET shorter == WordListsUpTo(n - 1)
         IN  shorter \cup {Append(l, DetectWords[w]) :
                              l \in shorter, w \in DOMAIN DetectWords}

\* first lines of the documentation of the code
ExampleLines == {
    Chars("The African legend says that Both St John..."),
    Chars("Abraham The Old Testament patriarch was called by God."),
    Chars("Aurora Borealis A manifestation of the Otherworld."),
    Chars("Aurora Borealis A manifestation..."),
    Chars("tower (see also house; ziggurat) The tower of Babel."),
    Chars("bird (see also anqa; bustard; cock; crane; crow;"),
    Chars("anqa (see also simurg)")
}

\* the first lines: words with one space between them, and the examples
DetectLines ==
    {Join(<<" ">>, l) : l \in WordListsUpTo(MaxWords) \ {<<>>}}
        \cup ExampleLines

InitDetect ==
    /\ input = <<>>
    /\ output = None
    /\ pc = "call"
    /\ first_line \in DetectLines
    /\ detected_term = None
    /\ entries = <<>>
    /\ raw = <<>>
    /\ doc_len = 0
    /\ page_num = DICT_START_PAGE
    /\ doc = <<>>
    /\ current_term = None
    /\ current_definition_lines = <<>>
    /\ current_page = 0
    /\ entry_idx = 1
    /\ cleaned = <<>>
    /\ seen_terms = {}

\* detected_term = detect_entry_heading(first_line)
Detect ==
    /\ pc = "call"
    /\ detected_term' = detect_entry_heading(first_line)
    /\ pc' = "return"
    /\ UNCHANGED <<callVars, extractVars, entries, first_line, postVars>>

NextDetect == Detect

SpecDetect == InitDetect /\ [][NextDetect]_vars

(***************************************************************************)
(* A function called alone on an argument.                                 *)
(***************************************************************************)

\* the call of a function on one of the arguments
InitCall(arguments) ==
    /\ pc = "call"
    /\ input \in arguments
    /\ output = None
    /\ entries = <<>>
    /\ raw = <<>>
    /\ doc_len = 0
    /\ page_num = DICT_START_PAGE
    /\ doc = <<>>
    /\ current_term = None
    /\ current_definition_lines = <<>>
    /\ current_page = 0
    /\ first_line = <<>>
    /\ detected_term = None
    /\ entry_idx = 1
    /\ cleaned = <<>>
    /\ seen_terms = {}

\* what a call leaves alone
restVars == <<extractVars, entries, first_line, detected_term, postVars>>

(***************************************************************************)
(* clean_definition on any text, and on its own result.                    *)
(***************************************************************************)

\* the characters of the texts: letters, whitespace, the soft hyphen
CleanAlphabet == <<"a", "B", " ", "\t", SOFT_HYPHEN>>

\* the bound of the texts given to clean_definition
MaxText == 5

RECURSIVE TextsUpTo(_)
\* the texts of at most n characters
TextsUpTo(n) ==
    IF n = 0 THEN {<<>>}
    ELSE LET shorter == TextsUpTo(n - 1)
         IN  shorter \cup {Append(t, CleanAlphabet[c]) :
                              t \in shorter, c \in DOMAIN CleanAlphabet}

\* output = clean_definition(input)
Clean ==
    /\ pc = "call"
    /\ output' = clean_definition(input)
    /\ pc' = "return"
    /\ UNCHANGED <<input, restVars>>

\* output = clean_definition(output): the cleaned text is cleaned again
CleanAgain ==
    /\ pc = "return"
    /\ output' = clean_definition(output)
    /\ pc' = "again"
    /\ UNCHANGED <<input, restVars>>

InitClean == InitCall(TextsUpTo(MaxText))

NextClean ==
    \/ Clean
    \/ CleanAgain

SpecClean == InitClean /\ [][NextClean]_vars

(***************************************************************************)
(* is_cross_reference on any definition.                                   *)
(***************************************************************************)

\* how a definition starts
CrossRefStarts == {
    Chars("See "), Chars("see "), Chars("SEE "), Chars("sEe "), Chars("seE "),
    Chars("(see "), Chars("(See "), Chars("(SEE "), Chars("(sEE "),
    Chars("See\t"), Chars("See"), Chars("Seen "), Chars("( see "),
    Chars(" See "), Chars("a See "), Chars("")
}

\* the bound of the short definitions given to is_cross_reference
MaxPad == 2

\* the numbers of characters after the start: a few, or enough to reach
\* the 120 characters of the length test from either side
PadLens == (0..MaxPad) \cup (110..118)

\* n times the letter x
Pad(n) == [k \in 1..n |-> "x"]

CrossRefTexts == {AsSeq(st \o Pad(n)) : st \in CrossRefStarts, n \in PadLens}

\* output = is_cross_reference(input)
IsCrossReference ==
    /\ pc = "call"
    /\ output' = is_cross_reference(input)
    /\ pc' = "return"
    /\ UNCHANGED <<input, restVars>>

InitCrossRef == InitCall(CrossRefTexts)

NextCrossRef == IsCrossReference

SpecCrossRef == InitCrossRef /\ [][NextCrossRef]_vars

(***************************************************************************)
(* is_running_header on any text.                                          *)
(***************************************************************************)

\* the bounds of the short texts given to is_running_header
MaxUpper == 9
MaxLower == 2

\* the numbers of uppercase letters: a few, or enough to reach the 50
\* characters of the length test from either side
UpperLens == (0..MaxUpper) \cup (17..18) \cup (47..51)

\* what a text starts and ends with
HeaderLeads == {Chars(""), Chars(" ")}
HeaderTails == {Chars(""), Chars("."), Chars(".."), Chars(" "), Chars("59")}

\* u times A, then l times b
Letters(u, l) == [k \in 1..(u + l) |-> IF k <= u THEN "A" ELSE "b"]

HeaderTexts ==
    {AsSeq(lead \o Letters(u, l) \o tail) :
        lead \in HeaderLeads, tail \in HeaderTails,
        u \in UpperLens, l \in 0..MaxLower}
    \cup {Chars("AUTOMOBILE"), Chars("DREAM"), Chars("SWASTIKA"),
          Chars("311")}

\* output = is_running_header(input)
IsRunningHeader ==
    /\ pc = "call"
    /\ output' = is_running_header(input)
    /\ pc' = "return"
    /\ UNCHANGED <<input, restVars>>

InitHeader == InitCall(HeaderTexts)

NextHeader == IsRunningHeader

SpecHeader == InitHeader /\ [][NextHeader]_vars

(***************************************************************************)
(* _is_valid_term on any term.                                             *)
(***************************************************************************)

\* the words of the terms: a plain word; a starter that is an ender, a
\* filler and one of the five decisive words; a filler only; an ender that
\* is a filler and decisive; a starter that is an ender
TermWords == <<Chars("aqua"), Chars("The"), Chars("very"), Chars("is"),
               Chars("of")>>

\* the bound of the terms given to _is_valid_term, in words
MaxTermWords == 6

RECURSIVE TermsUpTo(_)
\* the terms of at most n words, one space between the words
TermsUpTo(n) ==
    IF n = 0 THEN {<<>>}
    ELSE LET shorter == TermsUpTo(n - 1)
         IN  shorter \cup {IF t = <<>> THEN TermWords[w]
                           ELSE t \o <<" ">> \o TermWords[w] :
                              t \in shorter, w \in DOMAIN TermWords}

\* output = _is_valid_term(input)
IsValidTerm ==
    /\ pc = "call"
    /\ output' = _is_valid_term(input)
    /\ pc' = "return"
    /\ UNCHANGED <<input, restVars>>

\* the real headwords of the documentation of _is_valid_term
ExampleHeadwords == {
    Chars("abracadabra"), Chars("aqua vitae"), Chars("fiery curtain"),
    Chars("Abraham"), Chars("Aurora Borealis")
}

\* its fragments
ExampleFragments == {
    Chars("death and resurrection of"), Chars("pura in the"), Chars("very"),
    Chars("blue for"), Chars("Cabeiri The")
}

InitValid ==
    InitCall(TermsUpTo(MaxTermWords) \cup ExampleHeadwords
                 \cup ExampleFragments)

NextValid == IsValidTerm

SpecValid == InitValid /\ [][NextValid]_vars

(***************************************************************************)
(* extract_entries on a document of one text block of one line: a heading. *)
(***************************************************************************)

\* the headwords of the lines, word by word
EntryHeads == {
    <<Chars("tower")>>,
    <<Chars("aqua"), Chars("vitae")>>,
    <<Chars("Abraham")>>,
    <<Chars("Aurora"), Chars("Borealis")>>,
    <<Chars("Snow"), Chars("White"), Chars("The")>>
}

\* what stands between the headword and the definition: nothing, a closed
\* parenthetical aside
EntryAsides == {
    <<>>,
    Chars("(see also house; ziggurat)"),
    Chars("(See house)")
}

\* the texts after the headword
EntryBodies == {
    Chars("The tower is a symbol of ascent."),
    Chars("A manifestation of the Otherworld."),
    Chars("See halo."),
    Chars("Old Testament patriarch."),
    Chars("The tower of Babel was built by men who wished to reach the sky, and it stands in every tradition for the axis that joins earth and heaven.")
}

\* the bound of the runs of spaces between the words of a line
MaxGap == 2

\* n spaces
Gap(n) == AsSeq([k \in 1..n |-> " "])

\* the line a headword, a gap, an aside and a body make
EntryLine(l) ==
    Join(Gap(l.gap), l.head)
        \o (IF l.aside = <<>> THEN <<>> ELSE <<" ">> \o l.aside)
        \o Gap(l.gap) \o l.body

EntryLines ==
    [head : EntryHeads, gap : 1..MaxGap, aside : EntryAsides,
     body : EntryBodies]

\* extract_entries(doc) for a doc of one page that holds this one block
extract_entries_of(block) ==
    LET first == get_block_first_line(block)
        term == detect_entry_heading(first)
    IN  IF Skipped(block) \/ ~Truthy(term) THEN <<>>
        ELSE Finalized(<<>>, term, DefParts(block, first, term),
                       DICT_START_PAGE)

\* output = extract_entries(doc), the block's first line and the term
\* detected on it
ExtractLine ==
    LET block == [type |-> 0, lines |-> << <<EntryLine(input)>> >>]
    IN  /\ pc = "call"
        /\ first_line' = get_block_first_line(block)
        /\ detected_term' = detect_entry_heading(first_line')
        /\ output' = extract_entries_of(block)
        /\ pc' = "return"
        /\ UNCHANGED <<input, extractVars, entries, postVars>>

InitEntry == InitCall(EntryLines)

NextEntry == ExtractLine

SpecEntry == InitEntry /\ [][NextEntry]_vars

(***************************************************************************)
(* Properties of extract_entries, checked under Spec.                      *)
(***************************************************************************)

\* the block read at position k of the document
BlockAt(k) == doc[k].block

\* the step reads block b
ReadsBlock(b) ==
    /\ Len(doc') = Len(doc) + 1
    /\ doc'[Len(doc')].block = b

\* the lines of block b, stripped, from line k on
StrippedLines(b, k) ==
    LET lines == BlockLines(Blocks[b])
    IN  AsSeq([j \in 1..(Len(lines) - (k - 1)) |-> Strip(lines[j + k - 1])])

\* those of them that are not empty, no running header and no page number
TakenLines(b, k) ==
    SelectSeq(StrippedLines(b, k),
              LAMBDA lt : /\ lt # <<>>
                          /\ ~is_running_header(lt)
                          /\ ~is_page_number(lt))

TakenLinesOf == [b \in BlockIds |-> TakenLines(b, 1)]
StrippedLinesOf == [b \in BlockIds |-> StrippedLines(b, 1)]

\* the block at position k opens an entry
HeadingAt(k) == ~SkippedOf[BlockAt(k)] /\ Truthy(DetectedOf[BlockAt(k)])

\* the positions of the headings of the document, in document order
HeadingPositions ==
    SelectSeq(AsSeq([k \in 1..Len(doc) |-> k]), LAMBDA k : HeadingAt(k))

\* the remainder of a heading's first line after the term
Remainder(b) == Strip(From(FirstLineOf[b], Len(DetectedOf[b])))

RECURSIVE ContinuationLines(_, _)
\* the lines of the blocks from position k up to the next heading: of the
\* blocks the loop does not pass over, all lines or the taken ones only
ContinuationLines(k, filtered) ==
    IF k > Len(doc) \/ HeadingAt(k) THEN <<>>
    ELSE (IF SkippedOf[BlockAt(k)] THEN <<>>
          ELSE IF filtered THEN TakenLinesOf[BlockAt(k)]
          ELSE StrippedLinesOf[BlockAt(k)])
         \o ContinuationLines(k + 1, filtered)

\* the definition stitched for the heading at position k
Stitched(k, filtered) ==
    clean_definition(Join(<<" ">>,
        <<Remainder(BlockAt(k))>>
        \o (IF filtered THEN TakenLines(BlockAt(k), 2)
            ELSE StrippedLines(BlockAt(k), 2))
        \o ContinuationLines(k + 1, filtered)))

\* extract_entries has returned its list and nothing has touched it yet
Extracted == pc = "post" /\ entry_idx = 1

\* one raw entry per heading, with the heading's term and that definition
StitchedEntries(filtered) ==
    /\ Len(raw) = Len(HeadingPositions)
    /\ \A n \in DOMAIN raw :
           /\ raw[n].term = DetectedOf[BlockAt(HeadingPositions[n])]
           /\ raw[n].definition = Stitched(HeadingPositions[n], filtered)

FirstLineText(b) ==
    IF Blocks[b].type = 0 /\ Blocks[b].lines # <<>>
    THEN Strip(Concat(Blocks[b].lines[1]))
    ELSE <<>>

\* s is the start of t
IsPrefix(s, t) == Len(s) <= Len(t) /\ SubSeq(t, 1, Len(s)) = s

\* C2: a block opens an entry only by its first line.  A step that reads a
\* block leaves the open term as it is or sets it to the term detected on
\* the block's first line; when that first line is no heading, the open
\* term, its page and the raw entries stay and the definition buffer only
\* grows at its end, whatever the other lines of the block read like.
C2_FirstLineOnly ==
    [][\A b \in BlockIds : ReadsBlock(b) =>
          LET term == detect_entry_heading(FirstLineText(b))
          IN  /\ current_term' \in {current_term, term}
              /\ ~Truthy(term) =>
                     /\ UNCHANGED <<current_term, current_page, entries>>
                     /\ IsPrefix(current_definition_lines,
                                 current_definition_lines')]_vars

\* the two blocks whose later lines read like headings were read: the
\* entry opened by the first line is still the open one and those lines
\* are in its buffer
C2_Witness ==
    /\ pc = "extract"
    /\ Len(doc) = 2 /\ BlockAt(1) = 5 /\ BlockAt(2) = 6
    /\ detect_entry_heading(Chars("aureole See halo.")) = Chars("aureole")
    /\ current_term = Chars("phoenix")
    /\ entries = <<>>
    /\ current_definition_lines =
           <<Chars("The phoenix rises again."),
             Chars("aureole See halo."),
             Chars("It is reborn from its ashes."),
             Chars("mandrake The mandrake is a fertility symbol.")>>

\* the words of the only line of block b, <<>> if b is no one-line text block
OnlyLineWords(b) ==
    IF Blocks[b].type = 0 /\ Len(Blocks[b].lines) = 1
    THEN Split(Concat(Blocks[b].lines[1]))
    ELSE <<>>

\* block b is one line: a word of lowercase letters, then "See" and a
\* target, the text from "See" on shorter than 10 characters
StandaloneCrossRef(b) ==
    LET words == OnlyLineWords(b)
    IN  /\ Len(words) >= 3
        /\ Len(words[1]) >= 2
        /\ \A k \in DOMAIN words[1] : words[1][k] \in LowerSet
        /\ words[2] = Chars("See")
        /\ Len(Join(<<" ">>, SubSeq(words, 2, Len(words)))) < 10

\* the entry such a block is to yield
CrossRefEntry(b, page) ==
    LET words == OnlyLineWords(b)
    IN  [term |-> words[1],
         definition |-> Join(<<" ">>, SubSeq(words, 2, Len(words))),
         page |-> page + 1,
         is_cross_ref |-> TRUE]

HeaderBlock(b) ==
    /\ Blocks[b].type = 0
    /\ is_running_header(Strip(get_block_text(Blocks[b])))

\* C10: a step that reads a text block whose full text passes the
\* running-header test leaves the open term, its page, its definition
\* buffer and the raw entry list unchanged, whether an entry is open or not
\* and wherever the block sits on its page.
C10_HeaderBlocksInert ==
    [][\A b \in BlockIds : (ReadsBlock(b) /\ HeaderBlock(b)) =>
          UNCHANGED <<current_term, current_page, current_definition_lines,
                      entries>>]_vars

\* a header that reads like a heading was read with no entry open, then a
\* heading, then 'AUTOMOBILE' with the entry open: only the heading counted
C10_Witness ==
    /\ pc = "extract"
    /\ Len(doc) = 3 /\ BlockAt(1) = 10 /\ BlockAt(2) = 1 /\ BlockAt(3) = 4
    /\ HeaderBlock(10) /\ HeaderBlock(4)
    /\ Truthy(detect_entry_heading(FirstLineText(10)))
    /\ current_term = Chars("mandrake")
    /\ current_page = doc[2].page
    /\ Len(current_definition_lines) = 1
    /\ entries = <<>>

\* C12: when the input ends with an entry open and its buffer not empty,
\* that entry is the last raw entry: the open term, the cleaned join of the
\* buffer, the open page plus one; and every heading of the document has a
\* raw entry with its term.
C12_LastEntryFinalized ==
    Extracted =>
        /\ (Truthy(current_term) /\ current_definition_lines # <<>>) =>
               /\ raw # <<>>
               /\ raw[Len(raw)].term = current_term
               /\ raw[Len(raw)].definition =
                      clean_definition(Join(<<" ">>, current_definition_lines))
               /\ raw[Len(raw)].page = current_page + 1
        /\ \A k \in DOMAIN doc :
               HeadingAt(k) =>
                   \E n \in DOMAIN raw : raw[n].term = DetectedOf[BlockAt(k)]

\* the input ended in the middle of the phoenix entry, after the aureole
\* entry: phoenix is the second and last raw entry
C12_Witness ==
    /\ Extracted
    /\ Len(doc) = 3 /\ BlockAt(1) = 3 /\ BlockAt(2) = 5 /\ BlockAt(3) = 6
    /\ current_term = Chars("phoenix")
    /\ Len(raw) = 2
    /\ raw[1].term = Chars("aureole")
    /\ raw[2].term = Chars("phoenix")
    /\ raw[2].definition = Chars("The phoenix rises again. aureole See halo. It is reborn from its ashes. mandrake The mandrake is a fertility symbol.")

\* C13: every raw entry's page is 1 plus the 0-indexed page of the block
\* whose first line opened it, and while an entry is open its page is the
\* page of the last heading read and its predecessors are the only raw
\* entries, however many pages the loop has moved on since.
C13_PageAttribution ==
    /\ Len(entries) <= Len(HeadingPositions)
    /\ \A n \in DOMAIN entries :
           entries[n].page = doc[HeadingPositions[n]].page + 1
    /\ (pc = "extract" /\ Truthy(current_term)) =>
           /\ HeadingPositions # <<>>
           /\ current_page = doc[HeadingPositions[Len(HeadingPositions)]].page
           /\ Len(entries) = Len(HeadingPositions) - 1

\* the mandrake heading on the first page of the range and its
\* continuation on the next gave one entry on the heading's page
C13_Witness ==
    /\ Extracted
    /\ Len(doc) = 2 /\ BlockAt(1) = 1 /\ BlockAt(2) = 2
    /\ doc[1].page = DICT_START_PAGE /\ doc[2].page > DICT_START_PAGE
    /\ Len(raw) = 1
    /\ raw[1].page = DICT_START_PAGE + 1
    /\ raw[1].definition = Stitched(1, TRUE)
    /\ TakenLinesOf[2] # <<>>

\* C18: the pages read are pages p with start <= p < min(end, number of
\* pages), in ascending order, and every raw entry's page lies in
\* start + 1 .. min(end, number of pages): no block of another page opens
\* or extends an entry.
C18_PageRange ==
    LET last == IF DICT_END_PAGE <= doc_len THEN DICT_END_PAGE ELSE doc_len
    IN  /\ \A k \in DOMAIN doc :
               DICT_START_PAGE <= doc[k].page /\ doc[k].page < last
        /\ \A j, k \in DOMAIN doc : j < k => doc[j].page <= doc[k].page
        /\ \A n \in DOMAIN entries :
               /\ DICT_START_PAGE + 1 <= entries[n].page
               /\ entries[n].page <= last
        /\ Truthy(current_term) =>
               DICT_START_PAGE <= current_page /\ current_page < last

\* a document longer than the range: a heading on the last page of the
\* range gave the last raw entry, on page DICT_END_PAGE, 1-indexed
C18_Witness ==
    /\ Extracted
    /\ doc_len > DICT_END_PAGE
    /\ doc # <<>> /\ doc[Len(doc)].page = DICT_END_PAGE - 1
    /\ HeadingAt(Len(doc))
    /\ raw # <<>> /\ raw[Len(raw)].page = DICT_END_PAGE

\* what the code reads of a raw entry: the four keys, a term and a
\* definition that are non-empty strings, a page that is a number
EntryRecord(entry) ==
    /\ DOMAIN entry = {"term", "definition", "page", "is_cross_ref"}
    /\ Truthy(entry.term)
    /\ Truthy(entry.definition)
    /\ entry.page \in Nat
    /\ entry.is_cross_ref \in BOOLEAN

\* no step of the two functions is left without its operands: the term of
\* an entry is a string whenever its length is taken, an entry has the keys
\* that are read of it, cleaned and the loop index stay inside the list
NoErrorState ==
    /\ pc \in {"extract", "post", "done"}
    /\ current_term = None \/ Truthy(current_term)
    /\ current_page \in Nat
    /\ \A n \in DOMAIN entries : EntryRecord(entries[n])
    /\ \A k \in DOMAIN cleaned : cleaned[k] \in DOMAIN entries
    /\ pc = "post" => entry_idx \in 1..(Len(entries) + 1)
    /\ pc = "done" =>
           /\ DOMAIN Result = 1..Len(cleaned)
           /\ \A k \in DOMAIN Result : EntryRecord(Result[k])

\* the steps the two functions have left at most: the blocks and the pages
\* to read, the raw entries to examine, the two returns
StepsLeft ==
    CASE pc = "extract" ->
             (MaxBlocks - Len(doc))
             + (IF page_num < PageEnd THEN PageEnd - page_num ELSE 0)
             + MaxBlocks + 2
      [] pc = "post" -> (Len(entries) + 1 - entry_idx) + 1
      [] OTHER -> 0

ContinuationBlock(b) ==
    LET full_text == Strip(get_block_text(Blocks[b]))
    IN  /\ Blocks[b].type = 0
        /\ ~is_running_header(full_text)
        /\ ~is_page_number(full_text)
        /\ ~Truthy(DetectedOf[b])

\* C20: with an entry open, a step that reads a text block that is no
\* running header and no page number, and on whose first line no heading is
\* detected, appends to the definition buffer the block's stripped lines
\* that are not empty, no running header and no page number, in order, and
\* leaves the open term and its page unchanged.
C20_ContinuationStep ==
    [][\A b \in BlockIds :
          (ReadsBlock(b) /\ current_term # None /\ ContinuationBlock(b)) =>
              /\ current_definition_lines' =
                     current_definition_lines \o TakenLinesOf[b]
              /\ UNCHANGED <<current_term, current_page>>]_vars

\* C27: while no entry is open, no block read so far was a heading and
\* the blocks read have left the accumulator as it was at the start and the
\* raw entry list empty: their text is in no definition.
C27_IdleState ==
    current_term = None =>
        /\ \A k \in DOMAIN doc : ~HeadingAt(k)
        /\ current_definition_lines = <<>>
        /\ current_page = 0
        /\ entries = <<>>
        /\ raw = <<>>

\* two blocks of text that are no headings were read and the page loop is
\* over: no entry was made
C27_Witness ==
    /\ Extracted
    /\ current_term = None
    /\ Len(doc) >= 2
    /\ \A k \in DOMAIN doc :
           ~SkippedOf[BlockAt(k)] /\ TakenLinesOf[BlockAt(k)] # <<>>
    /\ raw = <<>>

\* C28: once a heading was read an entry is open, one only, and it is the
\* entry of the last heading read: its term and page are that heading's,
\* and its buffer holds the lines taken from that heading's block on and
\* no line read before it.
C28_NeverIdleAgain ==
    HeadingPositions # <<>> =>
        LET last == HeadingPositions[Len(HeadingPositions)]
            rest == Remainder(BlockAt(last))
        IN  /\ current_term # None
            /\ current_term = DetectedOf[BlockAt(last)]
            /\ current_page = doc[last].page
            /\ current_definition_lines =
                   (IF rest # <<>> THEN <<rest>> ELSE <<>>)
                   \o TakenLines(BlockAt(last), 2)
                   \o ContinuationLines(last + 1, TRUE)

\* a heading, a block that is passed over and a continuation were read:
\* the heading's entry is open and holds the continuation's lines
C28_Witness ==
    /\ pc = "extract"
    /\ Len(doc) = 3
    /\ HeadingPositions = <<1>>
    /\ SkippedOf[BlockAt(2)]
    /\ ~SkippedOf[BlockAt(3)]
    /\ current_term = DetectedOf[BlockAt(1)]
    /\ Len(current_definition_lines) >= 2
    /\ entries = <<>>

(***************************************************************************)
(* Properties of detect_entry_heading, checked under SpecDetect.           *)
(***************************************************************************)

\* C3 as the specification states it: every term detect_entry_heading
\* returns, whichever pattern produced it, passes _is_valid_term.
C3_EveryTermValidated ==
    (pc = "return" /\ detected_term # None) => _is_valid_term(detected_term)

\* C3, amended: every term detect_entry_heading returns has 2 to 50
\* characters, and it passes _is_valid_term unless one of the two
\* cross-reference patterns (3 and 4) produced it, none of the patterns 1,
\* 1b and 2 having returned a term.
C3_TermValidatedButCrossRefs ==
    (pc = "return" /\ detected_term # None) =>
        LET line == Strip(first_line)
        IN  /\ 2 <= Len(detected_term) /\ Len(detected_term) <= 50
            /\ \/ _is_valid_term(detected_term)
               \/ /\ Pattern1(line) = None
                  /\ Pattern1b(line) = None
                  /\ Pattern2(line) = None
                  /\ detected_term \in {Pattern3(line), Pattern4(line)}

\* pattern 1 returned the term of a heading line, and the validator passes it
C3_Witness ==
    /\ pc = "return"
    /\ first_line = Chars("aureole This charm was used.")
    /\ detected_term = Chars("aureole")
    /\ _is_valid_term(detected_term)

\* the first word of the line is capitalized and, lowercased, a sentence
\* starter
StartsWithSentenceStarter(line) ==
    LET words == Split(line)
    IN  /\ words # <<>>
        /\ words[1][1] \in UpperSet
        /\ Lower(words[1]) \in SENTENCE_STARTERS

\* C11: a first line that begins with a capitalized word whose lowercase
\* form is a sentence starter gives no heading, whatever capitalized
\* words follow.
C11_SentenceStarterNoHeading ==
    (pc = "return" /\ StartsWithSentenceStarter(first_line))
        => detected_term = None

\* the mid-paragraph line was read: pattern 2 matched its capitalized
\* words and no heading came back
C11_Witness ==
    /\ pc = "return"
    /\ first_line = Chars("The African legend says that Both St John...")
    /\ StartsWithSentenceStarter(first_line)
    /\ Pattern2Match(first_line) # 0
    /\ detected_term = None

\* the words of the run of capitalized words pattern 2 captures on the line
CapturedWords(line) == Split(SubSeq(line, 1, Pattern2Match(line)))

\* a term was returned for a line that starts with a capitalized word
CapitalizedTerm ==
    /\ pc = "return"
    /\ At(first_line, 1) \in UpperSet
    /\ Truthy(detected_term)

\* C24: the term returned for a run of capitalized words keeps the first
\* word of the run; it is the run's words without its trailing trim-list
\* words, all of them and nothing else: its last word, when it has two or
\* more, is no trim-list word, and a run without trim-list words comes back
\* with every word.
C24_CapitalizedTrim ==
    CapitalizedTerm =>
        LET words == CapturedWords(first_line)
            kept == Split(detected_term)
        IN  /\ Len(kept) >= 1 /\ Len(kept) <= Len(words)
            /\ kept = SubSeq(words, 1, Len(kept))
            /\ detected_term = Join(<<" ">>, kept)
            /\ Len(kept) >= 2 => Lower(kept[Len(kept)]) \notin TRIM_LOWER
            /\ \A k \in (Len(kept) + 1)..Len(words) :
                   Lower(words[k]) \in TRIM_LOWER
            /\ (\A k \in DOMAIN words : Lower(words[k]) \notin TRIM_LOWER)
                   => kept = words

\* 'Abraham The Old' came back as 'Abraham'
C24_Witness ==
    /\ CapitalizedTerm
    /\ CapturedWords(first_line) =
           <<Chars("Abraham"), Chars("The"), Chars("Old")>>
    /\ detected_term = Chars("Abraham")

\* C25: for a first line that is 'Aurora Borealis', the one-letter word 'A'
\* and the rest of a definition, detect_entry_heading returns the whole
\* name 'Aurora Borealis'.
C25_AuroraBorealis ==
    (/\ pc = "return"
     /\ IsPrefix(Chars("Aurora Borealis A manifestation"), first_line))
        => detected_term = Chars("Aurora Borealis")

(***************************************************************************)
(* Properties of post_process_entries, checked under SpecPost.             *)
(***************************************************************************)

\* the indices of the list the post-processor has been through
Examined == 1..(entry_idx - 1)

\* the raw entry passes every drop rule
PassesDropRules(entry) ==
    /\ Len(entry.term) \in 2..60
    /\ entry.is_cross_ref \/ Len(entry.definition) >= 10
    /\ entry.term[Len(entry.term)] \notin {".", ":", ";"}
    /\ Len(Split(entry.term)) # 1
           \/ Lower(entry.term) \notin SINGLE_WORD_EXCLUSIONS
    /\ _is_valid_term(entry.term)

\* raw entries j and k have the same term, case apart
SameTerm(j, k) == Lower(raw[j].term) = Lower(raw[k].term)

\* the raw entries whose term is accepted when they are met: they pass the
\* drop rules and no earlier entry that passes them has their term
FirstAccepted ==
    {k \in Examined :
        /\ PassesDropRules(raw[k])
        /\ \A j \in 1..(k - 1) : PassesDropRules(raw[j]) => ~SameTerm(j, k)}

\* C4: every entry of the list post_process_entries builds has a term of 2
\* to 60 characters that does not end in '.', ':' or ';' and passes
\* _is_valid_term.
C4_AcceptedTerms ==
    \A k \in DOMAIN Result :
        /\ 2 <= Len(Result[k].term) /\ Len(Result[k].term) <= 60
        /\ ~EndsWithAny(Result[k].term, {".", ":", ";"})
        /\ _is_valid_term(Result[k].term)

\* a list with a fragment and an overlong term came back with an entry
C4_Witness ==
    /\ pc = "done"
    /\ Len(Result) >= 1
    /\ \E j \in DOMAIN raw : ~_is_valid_term(raw[j].term)
    /\ \E j \in DOMAIN raw : Len(raw[j].term) > 60

\* C5: no two entries of the list post_process_entries builds have terms
\* that are equal when lowercased.
C5_UniqueTerms ==
    \A j, k \in DOMAIN Result :
        j # k => Lower(Result[j].term) # Lower(Result[k].term)

\* 'Phoenix' then 'phoenix', both passing the drop rules, came back as one
C5_Witness ==
    /\ pc = "done"
    /\ Len(raw) >= 2
    /\ raw[1].term = Chars("Phoenix") /\ PassesDropRules(raw[1])
    /\ raw[2].term = Chars("phoenix") /\ PassesDropRules(raw[2])
    /\ Len(Result) = 1

RECURSIVE MergedFrom(_, _)
\* the definitions of the duplicates of raw entry k among the raw entries
\* j..entry_idx-1, each preceded by one space, in input order
MergedFrom(k, j) ==
    IF j \notin Examined THEN <<>>
    ELSE (IF PassesDropRules(raw[j]) /\ SameTerm(j, k)
          THEN <<" ">> \o raw[j].definition
          ELSE <<>>)
         \o MergedFrom(k, j + 1)

\* C6: a raw entry that passes every drop rule and whose lowercased term is
\* that of an entry accepted earlier adds no entry: its definition, preceded
\* by one space, goes to the end of the definition of that earlier entry,
\* so that an accepted entry's definition is its own followed by those of
\* its duplicates in input order.
C6_MergeOnDuplicate ==
    /\ \A j \in Examined :
           (PassesDropRules(raw[j]) /\ j \notin FirstAccepted)
               => \A n \in DOMAIN cleaned : cleaned[n] # j
    /\ \A n \in DOMAIN cleaned :
           Result[n].definition =
               raw[cleaned[n]].definition
               \o MergedFrom(cleaned[n], cleaned[n] + 1)

\* three phoenix entries came back as one, the texts in input order
C6_Witness ==
    /\ pc = "done"
    /\ Len(raw) = 3 /\ Len(Result) = 1
    /\ raw[2].term = Chars("Phoenix")
    /\ Result[1].definition =
           Chars("The phoenix rises again. See the bird of fire. Reborn from ashes.")

\* C7: the entries of the list post_process_entries builds are those whose
\* term was accepted when met, in input order; a merge into an entry moves
\* neither it nor any other.
C7_OutputOrder ==
    /\ \A j, k \in DOMAIN cleaned : j < k => cleaned[j] < cleaned[k]
    /\ {cleaned[n] : n \in DOMAIN cleaned} = FirstAccepted
    /\ \A n \in DOMAIN cleaned : Result[n].term = raw[cleaned[n]].term

\* phoenix, aureole, Phoenix: the merge left phoenix ahead of aureole
C7_Witness ==
    /\ pc = "done"
    /\ Len(raw) = 3 /\ SameTerm(1, 3) /\ ~SameTerm(1, 2)
    /\ cleaned = <<1, 2>>
    /\ Result[1].definition # raw[1].definition

\* C8: every entry of the list post_process_entries builds that is no
\* cross-reference has a definition of at least 10 characters, merges
\* included.
C8_DefinitionLength ==
    \A k \in DOMAIN Result :
        ~Result[k].is_cross_ref => Len(Result[k].definition) >= 10

\* a short definition that is no cross-reference was in the list, and an
\* entry that is none came back after a merge into it
C8_Witness ==
    /\ pc = "done"
    /\ \E j \in DOMAIN raw :
           ~raw[j].is_cross_ref /\ Len(raw[j].definition) < 10
    /\ \E n \in DOMAIN Result :
           /\ ~Result[n].is_cross_ref
           /\ Result[n].definition # raw[cleaned[n]].definition

\* the text starts with the word, each letter in one of the given cases,
\* and a whitespace after it
StartsWithWord(d, letters) ==
    /\ \A k \in DOMAIN letters : At(d, k) \in letters[k]
    /\ IsSpace(At(d, Len(letters) + 1))

\* C23: a step on a raw entry that fails a drop rule changes no entry, not
\* the list of accepted entries and not the terms seen, also when its
\* lowercased term is that of an accepted entry: nothing of it is merged.
C23_DropBeforeMerge ==
    [][(/\ pc = "post"
        /\ entry_idx <= Len(raw)
        /\ ~PassesDropRules(raw[entry_idx]))
           => UNCHANGED <<entries, cleaned, seen_terms>>]_vars

\* an entry that fails a drop rule came after an accepted entry of the
\* same term, case apart, and the accepted entry is as it was
C23_Witness ==
    /\ pc = "done"
    /\ \E j, k \in DOMAIN raw :
           /\ j < k
           /\ \E c \in DOMAIN cleaned : cleaned[c] = j
           /\ ~PassesDropRules(raw[k])
           /\ SameTerm(j, k)
           /\ entries[j] = raw[j]

\* the definition is a pointer: it begins with 'See ' or '(see ' and is
\* shorter than 120 characters
PointerOnly(definition) ==
    /\ Len(definition) < 120
    /\ \/ StartsWithWord(definition, <<{"S", "s"}, {"e"}, {"e"}>>)
       \/ /\ At(definition, 1) = "("
          /\ StartsWithWord(From(definition, 1), <<{"S", "s"}, {"e"}, {"e"}>>)

\* C22: in the list post_process_entries returns, an entry whose
\* is_cross_ref is true has a definition that begins with 'See ' or '(see '
\* and is shorter than 120 characters, whatever was merged into it.
C22_FlagAgreesWithDefinition ==
    pc = "done" =>
        \A k \in DOMAIN Result :
            Result[k].is_cross_ref => PointerOnly(Result[k].definition)

\* C30: when post_process_entries returns, every record of the list it
\* was given has the term, the definition, the page and the flag it had
\* when the function was called.
C30_InputUnchanged ==
    pc = "done" => entries = raw

(***************************************************************************)
(* Properties of clean_definition, checked under SpecClean.                *)
(***************************************************************************)

\* C14: cleaning a cleaned text changes nothing:
\* clean_definition(clean_definition(s)) = clean_definition(s) for every
\* text s of letters, whitespace and soft hyphens.
C14_CleanIdempotent ==
    pc = "again" => output = clean_definition(input)

(***************************************************************************)
(* Properties of is_cross_reference, checked under SpecCrossRef.           *)
(***************************************************************************)

\* C15 as the specification states it: is_cross_reference(d) is true
\* exactly when d is shorter than 120 characters and begins with 'See ' or
\* '(see ', the letters of 'see' in any case.
C15_CrossRefAnyCase ==
    pc = "return" =>
        LET d == Strip(input)
        IN  output = (/\ Len(d) < 120
                      /\ \/ StartsWithWord(d, <<{"S", "s"}, {"E", "e"},
                                                {"E", "e"}>>)
                         \/ StartsWithWord(d, <<{"("}, {"S", "s"},
                                                {"E", "e"}, {"E", "e"}>>))

\* C15, amended: is_cross_reference(d) is true exactly when d, stripped, is
\* shorter than 120 characters and begins with 'See' or '(See' followed by
\* a whitespace, the S in either case and the 'ee' in lowercase.
C15_CrossRefClassification ==
    pc = "return" =>
        LET d == Strip(input)
        IN  output = (/\ Len(d) < 120
                      /\ \/ StartsWithWord(d, <<{"S", "s"}, {"e"}, {"e"}>>)
                         \/ StartsWithWord(d, <<{"("}, {"S", "s"}, {"e"},
                                                {"e"}>>))

\* a pointer of 119 characters was classified as a cross-reference
C15_Witness ==
    /\ pc = "return"
    /\ Len(input) = 119
    /\ SubSeq(input, 1, 5) = Chars("(see ")
    /\ output = TRUE

(***************************************************************************)
(* Properties of is_running_header, checked under SpecHeader.              *)
(***************************************************************************)

\* the letters of a text, and the uppercase ones among them
LettersOf(t) == SelectSeq(t, LAMBDA c : c \in LowerSet \cup UpperSet)
CapitalsOf(t) == SelectSeq(t, LAMBDA c : c \in UpperSet)

\* a trimmed text reads as a header: it has a letter, nine in ten of its
\* letters at least are uppercase, and it has 2 to 50 characters
ReadsAsHeader(t) ==
    /\ Len(LettersOf(t)) >= 1
    /\ 10 * Len(CapitalsOf(t)) >= 9 * Len(LettersOf(t))
    /\ Len(t) \in 2..50

\* C16 as the specification states it: is_running_header(text) is true
\* exactly when the text, trimmed of the whitespace around it, has a letter,
\* at least 90% of its letters uppercase and 2 to 50 characters.
C16_HeaderOfTrimmedText ==
    pc = "return" => output = ReadsAsHeader(Strip(input))

\* C16, amended: the same of the text trimmed of the whitespace around it
\* and then of the periods at its end.
C16_RunningHeaderTest ==
    pc = "return" => output = ReadsAsHeader(RStrip(Strip(input), {"."}))

\* fifty capitals and a period: 51 characters, a header all the same
C16_Witness ==
    /\ pc = "return"
    /\ Len(input) = 51
    /\ input[51] = "."
    /\ output = TRUE

(***************************************************************************)
(* Properties of _is_valid_term, checked under SpecValid.                  *)
(***************************************************************************)

\* the rules of a headword, on the words of a term
HeadwordRules(w) ==
    /\ Len(w) \in 1..5
    /\ Lower(w[1]) \notin SENTENCE_STARTERS
    /\ Lower(w[Len(w)]) \notin FRAG_ENDERS
    /\ Len(w) >= 3 =>
           /\ Cardinality({k \in 2..Len(w) :
                              Lower(w[k]) \in FRAG_INTERNALS}) < 2
           /\ \A k \in 2..Len(w) :
                  Lower(w[k]) \notin {Chars("the"), Chars("is"), Chars("was"),
                                      Chars("are"), Chars("were")}

C26_DocumentedExamples ==
    pc = "return" =>
        /\ input \in ExampleHeadwords => output = TRUE
        /\ input \in ExampleFragments => output = FALSE

(***************************************************************************)
(* Properties of a heading line's entry, checked under SpecEntry.          *)
(***************************************************************************)

\* the definition states something: it goes on after a pointer, or is none
DefiningBody(body) ==
    ~StartsWithWord(body, <<{"s", "S"}, {"e", "E"}, {"e", "E"}>>)

\* C21: the entry of a heading line that holds a closed parenthetical aside
\* followed by defining text is not classified as a cross-reference, also
\* when its definition is shorter than 120 characters.
C21_AsideNoCrossRef ==
    (/\ pc = "return"
     /\ input.aside # <<>>
     /\ DefiningBody(input.body)
     /\ output # <<>>)
        => ~output[1].is_cross_ref

\* C29: the term detected on a block's first line is a prefix of that
\* line, whatever the pattern and the spaces between the words, so that
\* first_line[len(term):] is the line without the term.
C29_TermIsPrefix ==
    (pc = "return" /\ Truthy(detected_term))
        => IsPrefix(detected_term, first_line)

=============================================================================
